---------------------------- MODULE Spec2Model ----------------------------
(***************************************************************************)
(* Model of wi-sense (src/main.py): the LiveData store, the chart          *)
(* controller of main() (view mode, viewport, background shading) and the  *)
(* sampling tick driven by FuncAnimation.                                  *)
(*                                                                         *)
(* Spec      the program as it runs: one GUI event loop that dispatches    *)
(*           the timer callback update() and the key / scroll handlers one *)
(*           at a time.  update() is split at its blocking call to         *)
(*           read_wifi_metrics_macos().                                    *)
(* SpecView  Spec with the viewport inputs (scroll wheel, arrows, Home),    *)
(*           under fewer samples.                                          *)
(* SpecConc  the LiveData class called from a sampling thread and an input *)
(*           thread, one Python statement per step.                        *)
(* SpecParse parse_wdutil_output applied to texts of a few lines; a str is  *)
(*           the sequence of its characters.                               *)
(*                                                                         *)
(* Of the chart, the model keeps what the handlers read back or what the   *)
(* store determines: the x limits, the background patches, the face colour *)
(* and the bars of the statistics view.  It leaves out the line data, the  *)
(* y limits, the text of the stats box, the dashed marker a material key   *)
(* draws, the titles and labels, and the lines printed to the terminal.    *)
(* snr_by_material is a function on the materials, so the insertion order  *)
(* of the dict (the left-to-right order of the bars) is not represented.   *)
(***************************************************************************)
EXTENDS Integers, Sequences, FiniteSets, TLC

VARIABLES
    \* ---- LiveData fields (src/main.py:92-102)
    times, rssi, noise, snr,
    snr_by_material,
    material_transitions,
    current_material,
    current_band,
    csv_rows,
    csv_lock,
    \* ---- main() locals captured by the handlers
    start,
    is_stats_view,
    auto_scroll,
    display_window,
    xlim,
    patches,
    facecolor,
    bars,         \* the bar groups of the statistics view
    \* ---- environment and control
    now,          \* the last value the wall clock returned
    pc,           \* position of the event loop
    ts,           \* update()'s local ts while the acquisition is in flight
    file,         \* content of CSV_FILENAME
    navCount,     \* number of viewport inputs handled in live view
    \* ---- the two threads of SpecConc
    pcS, pcI, argS, argI,
    \* ---- parse_wdutil_output: its argument and what the call produced
    txt, parsed,
    \* ---- history
    appended,     \* samples passed to append since construction / the last clear_data
    last          \* the handler (and branch) that ran last

storeVars == <<times, rssi, noise, snr, snr_by_material, material_transitions,
               current_material, current_band, csv_rows>>
viewVars  == <<start, is_stats_view, auto_scroll, display_window, xlim, patches,
               facecolor, bars>>
concVars  == <<pcS, pcI, argS, argI, csv_lock>>
parseVars == <<txt, parsed>>
vars == <<storeVars, viewVars, concVars, parseVars, now, pc, ts, file, navCount,
          appended, last>>

-----------------------------------------------------------------------------
(* Program constants *)

ROLLING_WINDOW_SEC == 300
DISPLAY_WINDOW_SEC == 60

MATERIAL_KEYS ==
    [k \in {"1", "2", "3", "4", "5", "6", "7"} |->
        CASE k = "1" -> "baseline"
          [] k = "2" -> "wood"
          [] k = "3" -> "plastic"
          [] k = "4" -> "glass"
          [] k = "5" -> "aluminium"
          [] k = "6" -> "copper"
          [] k = "7" -> "steel"]

Materials == {MATERIAL_KEYS[k] : k \in DOMAIN MATERIAL_KEYS}

MATERIAL_COLORS ==
    [m \in Materials |->
        CASE m = "baseline"  -> "#f8f9fa"
          [] m = "wood"      -> "#f4e4bc"
          [] m = "plastic"   -> "#e3f2fd"
          [] m = "glass"     -> "#f1f8e9"
          [] m = "aluminium" -> "#eceff1"
          [] m = "copper"    -> "#fff3e0"
          [] m = "steel"     -> "#fafafa"]

\* MATERIAL_COLORS.get(material, '#ffffff')
ColorOf(m) == IF m \in DOMAIN MATERIAL_COLORS THEN MATERIAL_COLORS[m] ELSE "#ffffff"

CLEARED == "--- CLEARED ---"

-----------------------------------------------------------------------------
(* Bounds and input sets *)

\* Values the wall clock returns; every read returns a later one.
Instants == {5, 10, 25, 30, 330}

\* (rssi, noise) pairs the parser returns.
Readings == {<<-40, -90>>, <<-55, -95>>}

\* Material keys pressed.
KeyInputs == {"2", "4"}

\* The same, where the viewport inputs are explored (SpecView).
ViewReadings == {<<-40, -90>>}
ViewKeyInputs == {"2"}
ViewInstants == {5, 30, 330}

\* The same, for the two threads of SpecConc.
ConcInstants == {5, 330}
ConcKeyInputs == {"2"}

\* clear_data calls in a run of SpecConc.
MaxClearsConc == 1

\* Export Log records written in a run of Spec / of SpecView.
MaxRows == 3
MaxRowsView == 2

\* Viewport inputs (scroll, arrows, Home) handled in live view in a run of
\* SpecView.
MaxNavView == 2

\* Lines, in any order, of a text given to parse_wdutil_output in SpecParse; a
\* section of TrailingSections may follow them.
MaxLines == 3


-----------------------------------------------------------------------------
(* Exact arithmetic for the viewport: a number is <<numerator, denominator>> *)
(* in lowest terms with a positive denominator.                              *)

Abs(n) == IF n < 0 THEN -n ELSE n

RECURSIVE GCD(_, _)
GCD(a, b) == IF b = 0 THEN a ELSE GCD(b, a % b)

Rat(n, d) ==
    LET sn == IF d < 0 THEN -n ELSE n
        sd == Abs(d)
        g  == GCD(Abs(sn), sd)
    IN  <<sn \div g, sd \div g>>

RInt(n) == <<n, 1>>
RAdd(a, b) == Rat(a[1] * b[2] + b[1] * a[2], a[2] * b[2])
RSub(a, b) == Rat(a[1] * b[2] - b[1] * a[2], a[2] * b[2])
RMul(a, b) == Rat(a[1] * b[1], a[2] * b[2])
RDiv(a, b) == Rat(a[1] * b[2], a[2] * b[1])
RLt(a, b)  == a[1] * b[2] < b[1] * a[2]
RLe(a, b)  == a[1] * b[2] <= b[1] * a[2]
RMin(a, b) == IF RLt(b, a) THEN b ELSE a
RMax(a, b) == IF RLt(a, b) THEN b ELSE a

-----------------------------------------------------------------------------
(* parse_wdutil_output: a str is the sequence of its characters *)

\* the character U+2014
EmDash == "emdash"

Upper == {"A", "B", "C", "D", "E", "F", "G", "H", "I", "J", "K", "L", "M",
          "N", "O", "P", "Q", "R", "S", "T", "U", "V", "W", "X", "Y", "Z"}
Lower == {"a", "b", "c", "d", "e", "f", "g", "h", "i", "j", "k", "l", "m",
          "n", "o", "p", "q", "r", "s", "t", "u", "v", "w", "x", "y", "z"}
Digits == {"0", "1", "2", "3", "4", "5", "6", "7", "8", "9"}
Whitespace == {" ", "\t"}

\* the lines the input texts are made of
\* the header of the section that is read
WifiHeader == <<"W", "I", "F", "I">>
\* the header of another section
BluetoothHeader == <<"B", "L", "U", "E", "T", "O", "O", "T", "H">>
\* a rule of em dashes, as wdutil prints above and below a header
Separator == <<EmDash, EmDash, EmDash, EmDash>>
\* "RSSI : -40 dBm"
RssiLine == <<"R", "S", "S", "I", " ", ":", " ", "-", "4", "0", " ", "d", "B", "m">>
\* "Noise : -90 dBm"
NoiseLine == <<"N", "o", "i", "s", "e", " ", ":", " ", "-", "9", "0", " ", "d", "B", "m">>
\* "  RSSI : -71 dBm"
OtherRssiLine == <<" ", " ", "R", "S", "S", "I", " ", ":", " ", "-", "7", "1", " ", "d", "B", "m">>
\* "  Noise : -95 dBm"
OtherNoiseLine == <<" ", " ", "N", "o", "i", "s", "e", " ", ":", " ", "-", "9", "5", " ", "d", "B", "m">>
\* "  RSSI : off": the label without a number
NoValueLine == <<" ", " ", "R", "S", "S", "I", " ", ":", " ", "o", "f", "f">>
\* "  SSID : Home": a field that is not read
SsidLine == <<" ", " ", "S", "S", "I", "D", " ", ":", " ", "H", "o", "m", "e">>

ParseLines == {WifiHeader, BluetoothHeader, Separator, RssiLine, NoiseLine,
               OtherRssiLine, OtherNoiseLine, NoValueLine, SsidLine}

\* the text whose lines are ls, each ended by a newline
RECURSIVE JoinLines(_)
JoinLines(ls) == IF ls = <<>> THEN <<>> ELSE ls[1] \o <<"\n">> \o JoinLines(Tail(ls))

\* txt.splitlines(), for texts whose only line boundary is "\n"
RECURSIVE SplitFrom(_, _)
SplitFrom(s, cur) ==
    IF s = <<>> THEN (IF cur = <<>> THEN <<>> ELSE <<cur>>)
    ELSE IF s[1] = "\n" THEN <<cur>> \o SplitFrom(Tail(s), <<>>)
         ELSE SplitFrom(Tail(s), Append(cur, s[1]))

splitlines(s) == SplitFrom(s, <<>>)

RECURSIVE lstrip(_)
lstrip(s) == IF s # <<>> /\ s[1] \in Whitespace THEN lstrip(Tail(s)) ELSE s

RECURSIVE rstrip(_)
rstrip(s) == IF s # <<>> /\ s[Len(s)] \in Whitespace
             THEN rstrip(SubSeq(s, 1, Len(s) - 1)) ELSE s

\* line.strip()
strip(s) == rstrip(lstrip(s))

\* line.startswith(prefix)
startswith(s, prefix) == Len(s) >= Len(prefix) /\ SubSeq(s, 1, Len(prefix)) = prefix

\* sub in line
Contains(s, sub) ==
    \E i \in 1..(Len(s) - Len(sub) + 1) : SubSeq(s, i, i + Len(sub) - 1) = sub

\* line.isupper(): a cased character exists and no cased character is lower case
isupper(s) == (\E i \in 1..Len(s) : s[i] \in Upper) /\ (\A i \in 1..Len(s) : s[i] \notin Lower)

\* the first position of character c in s, Len(s) + 1 when there is none
IndexOf(s, c) ==
    IF \E i \in 1..Len(s) : s[i] = c
    THEN CHOOSE i \in 1..Len(s) : s[i] = c /\ \A j \in 1..(i - 1) : s[j] # c
    ELSE Len(s) + 1

\* line.split(":")[1], for a line that holds a colon: what stands between the
\* first colon and the second one (or the end of the line)
SplitColon1(s) ==
    LET rest == SubSeq(s, IndexOf(s, ":") + 1, Len(s))
    IN  SubSeq(rest, 1, IndexOf(rest, ":") - 1)

\* does [-]?\d+ match at position i of s
MatchesAt(s, i) ==
    \/ s[i] \in Digits
    \/ s[i] = "-" /\ i < Len(s) /\ s[i + 1] \in Digits

\* the end of the run of digits that starts at position i
RECURSIVE DigitsEnd(_, _)
DigitsEnd(s, i) == IF i < Len(s) /\ s[i + 1] \in Digits THEN DigitsEnd(s, i + 1) ELSE i

\* re.findall(r"[-]?\d+", s): [0] of it as <<match>>, <<>> when nothing matches
\* (the IndexError that the except clause swallows)
FirstInt(s) ==
    IF \E i \in 1..Len(s) : MatchesAt(s, i)
    THEN LET i == CHOOSE k \in 1..Len(s) :
                     MatchesAt(s, k) /\ \A j \in 1..(k - 1) : ~MatchesAt(s, j)
             d == IF s[i] = "-" THEN i + 1 ELSE i
         IN  <<SubSeq(s, i, DigitsEnd(s, d))>>
    ELSE <<>>

DigitValue(c) ==
    CASE c = "0" -> 0 [] c = "1" -> 1 [] c = "2" -> 2 [] c = "3" -> 3 [] c = "4" -> 4
      [] c = "5" -> 5 [] c = "6" -> 6 [] c = "7" -> 7 [] c = "8" -> 8 [] c = "9" -> 9

RECURSIVE Decimal(_)
Decimal(s) == IF s = <<>> THEN 0
              ELSE 10 * Decimal(SubSeq(s, 1, Len(s) - 1)) + DigitValue(s[Len(s)])

\* float(m) for a match m of [-]?\d+
float(m) == IF m[1] = "-" THEN 0 - Decimal(Tail(m)) ELSE Decimal(m)

\* None, and a value, of the locals rssi and noise
None == <<>>
Some(v) == <<v>>

\* the try / except of one field: the new value of the local, old when the
\* extraction raised
Extract(line, old) ==
    LET m == FirstInt(strip(SplitColon1(line)))
    IN  IF m = <<>> THEN old ELSE Some(float(m[1]))

\* (mutant) no header ends the section
IsNewSectionNever(line) == FALSE

\* len(line) > 0 and not line.startswith("----") and line.isupper() and
\* not ":" in line        (---- stands for the four em dashes)
IsNewSection(line) ==
    /\ Len(line) > 0
    /\ ~startswith(line, <<EmDash, EmDash, EmDash, EmDash>>)
    /\ isupper(line)
    /\ ~Contains(line, <<":">>)

\* (mutant) the error is raised only when both values are missing
MissingBoth(r, n) == r = None /\ n = None

\* rssi is None or noise is None
Missing(r, n) == r = None \/ n = None

\* raise ValueError(...)
ValueError == <<"ValueError">>

\* no call has been made
Pending == <<"pending">>

\* return rssi, noise
Returned(r, n) == <<"return", r, n>>

\* the for loop from line i on, with the locals as the loop holds them, and
\* the statements after the loop
RECURSIVE ParseLoop(_, _, _, _, _)
ParseLoop(ls, i, in_wifi_section, r, n) ==
    IF i > Len(ls)
    THEN IF Missing(r, n) THEN ValueError ELSE Returned(r, n)
    ELSE LET line == strip(ls[i])
         IN  IF line = <<"W", "I", "F", "I">>
             THEN ParseLoop(ls, i + 1, TRUE, r, n)
             ELSE IF startswith(line, <<EmDash, EmDash, EmDash, EmDash>>) /\ in_wifi_section
             THEN ParseLoop(ls, i + 1, in_wifi_section, r, n)
             ELSE IF in_wifi_section /\ IsNewSection(line)
             THEN ParseLoop(ls, i + 1, FALSE, r, n)
             ELSE IF in_wifi_section
             THEN IF Contains(line, <<"R", "S", "S", "I">>) /\ Contains(line, <<":">>)
                  THEN ParseLoop(ls, i + 1, in_wifi_section, Extract(line, r), n)
                  ELSE IF Contains(line, <<"N", "o", "i", "s", "e">>) /\ Contains(line, <<":">>)
                  THEN ParseLoop(ls, i + 1, in_wifi_section, r, Extract(line, n))
                  ELSE ParseLoop(ls, i + 1, in_wifi_section, r, n)
             ELSE ParseLoop(ls, i + 1, in_wifi_section, r, n)

parse_wdutil_output(t) == ParseLoop(splitlines(t), 1, FALSE, None, None)

-----------------------------------------------------------------------------
(* LiveData: pure parts *)

window_sec == ROLLING_WINDOW_SEC

\* datetime.fromtimestamp(ts).isoformat(): a text tagged by the instant it prints
isoformat(t) == [iso |-> t]

\* (mutant) the operands swapped
SnrOfSwapped(r, n) == n - r

\* snr = rssi - noise
SnrOf(r, n) == r - n

\* cutoff = ts - self.window_sec
Cutoff(t) == t - window_sec

\* (mutant) a sample exactly at the cutoff is evicted too
ExpiredAtCutoff(tseq, cutoff) == Len(tseq) > 0 /\ tseq[1] <= cutoff

\* the loop condition of append: self.times and self.times[0] < cutoff
Expired(tseq, cutoff) == Len(tseq) > 0 /\ tseq[1] < cutoff

\* how many times the loop body of append runs
RECURSIVE NumExpired(_, _)
NumExpired(tseq, cutoff) ==
    IF Expired(tseq, cutoff) THEN 1 + NumExpired(Tail(tseq), cutoff) ELSE 0

\* k times popleft()
Drop(s, k) == SubSeq(s, k + 1, Len(s))

\* [(t, m) for t, m in self.material_transitions if t >= cutoff]
PruneTransitions(trs, cutoff) == SelectSeq(trs, LAMBDA e : e[1] >= cutoff)

\* (mutant) the row is tagged with the default material
SampleRowBaseline(t, band, material, r, n, s) ==
    [timestamp |-> isoformat(t), band |-> band, material |-> "baseline",
     rssi_dbm |-> r, noise_dbm |-> n, snr_db |-> s]

SampleRow(t, band, material, r, n, s) ==
    [timestamp |-> isoformat(t), band |-> band, material |-> material,
     rssi_dbm |-> r, noise_dbm |-> n, snr_db |-> s]

SentinelRow(t, band) ==
    [timestamp |-> isoformat(t), band |-> band, material |-> CLEARED,
     rssi_dbm |-> 0, noise_dbm |-> 0, snr_db |-> 0]

NoSnr == [m \in Materials |-> <<>>]

-----------------------------------------------------------------------------
(* LiveData: the methods, each as one step (the event loop runs a handler   *)
(* to completion)                                                           *)

\* (mutant) the accumulator of the current material is evicted with the series
appendEvictsAccumulator(t, r, n) ==
    LET s      == SnrOf(r, n)
        cutoff == Cutoff(t)
        k      == NumExpired(Append(times, t), cutoff)
    IN  /\ times' = Drop(Append(times, t), k)
        /\ rssi'  = Drop(Append(rssi, r), k)
        /\ noise' = Drop(Append(noise, n), k)
        /\ snr'   = Drop(Append(snr, s), k)
        /\ material_transitions' = PruneTransitions(material_transitions, cutoff)
        /\ snr_by_material' =
               [snr_by_material EXCEPT ![current_material] =
                    IF k > 0 THEN <<s>> ELSE Append(@, s)]
        /\ csv_rows' = Append(csv_rows,
               SampleRow(t, current_band, current_material, r, n, s))
        /\ appended' = Append(appended, <<t, r, n>>)
        /\ UNCHANGED <<current_material, current_band>>

append(t, r, n) ==
    LET s      == SnrOf(r, n)
        cutoff == Cutoff(t)
        k      == NumExpired(Append(times, t), cutoff)
    IN  /\ times' = Drop(Append(times, t), k)
        /\ rssi'  = Drop(Append(rssi, r), k)
        /\ noise' = Drop(Append(noise, n), k)
        /\ snr'   = Drop(Append(snr, s), k)
        /\ material_transitions' = PruneTransitions(material_transitions, cutoff)
        /\ snr_by_material' =
               [snr_by_material EXCEPT ![current_material] = Append(@, s)]
        /\ csv_rows' = Append(csv_rows,
               SampleRow(t, current_band, current_material, r, n, s))
        /\ appended' = Append(appended, <<t, r, n>>)
        /\ UNCHANGED <<current_material, current_band>>

\* (mutant) the transition is put in front of the list
set_materialPrepends(material, timestamp) ==
    /\ current_material' = material
    /\ material_transitions' = <<<<timestamp, material>>>> \o material_transitions
    /\ UNCHANGED <<times, rssi, noise, snr, snr_by_material, current_band,
                   csv_rows, appended>>

set_material(material, timestamp) ==
    /\ current_material' = material
    /\ material_transitions' = Append(material_transitions, <<timestamp, material>>)
    /\ UNCHANGED <<times, rssi, noise, snr, snr_by_material, current_band,
                   csv_rows, appended>>

\* (mutant) the transitions are kept and the band is reset
clear_dataKeepsTransitions(t) ==
    /\ times' = <<>> /\ rssi' = <<>> /\ noise' = <<>> /\ snr' = <<>>
    /\ snr_by_material' = NoSnr
    /\ current_material' = "baseline"
    /\ current_band' = "2.4"
    /\ csv_rows' = Append(csv_rows, SentinelRow(t, current_band))
    /\ appended' = <<>>
    /\ UNCHANGED material_transitions

\* (mutant) the Export Log is restarted at the sentinel row
clear_dataDropsLog(t) ==
    /\ times' = <<>> /\ rssi' = <<>> /\ noise' = <<>> /\ snr' = <<>>
    /\ snr_by_material' = NoSnr
    /\ material_transitions' = <<>>
    /\ current_material' = "baseline"
    /\ csv_rows' = <<SentinelRow(t, current_band)>>
    /\ appended' = <<>>
    /\ UNCHANGED current_band

\* t is the value datetime.now() returns for the sentinel row
clear_data(t) ==
    /\ times' = <<>> /\ rssi' = <<>> /\ noise' = <<>> /\ snr' = <<>>
    /\ snr_by_material' = NoSnr
    /\ material_transitions' = <<>>
    /\ current_material' = "baseline"
    /\ csv_rows' = Append(csv_rows, SentinelRow(t, current_band))
    /\ appended' = <<>>
    /\ UNCHANGED current_band

NoFile == "absent"

CsvColumns == <<"timestamp", "band", "material", "rssi_dbm", "noise_dbm", "snr_db">>

\* (mutant) the last row is not written
to_csvDropsLast(rows) ==
    <<CsvColumns>> \o
    [i \in 1..(Len(rows) - 1) |->
        <<rows[i].timestamp, rows[i].band, rows[i].material,
          rows[i].rssi_dbm, rows[i].noise_dbm, rows[i].snr_db>>]

\* pd.DataFrame(rows).to_csv(filename, index=False): a header line, then one
\* line of fields per row
to_csv(rows) ==
    <<CsvColumns>> \o
    [i \in 1..Len(rows) |->
        <<rows[i].timestamp, rows[i].band, rows[i].material,
          rows[i].rssi_dbm, rows[i].noise_dbm, rows[i].snr_db>>]

\* (mutant) the rows are added to what the file holds
export_csvAppends(rows, old) ==
    IF rows # <<>>
    THEN (IF old = "absent" THEN <<>> ELSE old) \o to_csv(rows)
    ELSE old

\* what export_csv leaves in the file
export_csv(rows, old) == IF rows # <<>> THEN to_csv(rows) ELSE old


-----------------------------------------------------------------------------
(* main(): the viewport *)

\* The x limits of an axes that holds only the empty lines (before the first
\* set_xlim, and again after ax.clear()): autoscaling without data gives
\* (-0.05, 0.05) widened by the 5% margin.  A marker drawn by a material key
\* before the first set_xlim rescales them; that is left out.
DefaultXlim == <<Rat(-11, 200), Rat(11, 200)>>

Width(xl) == RSub(xl[2], xl[1])

\* (mutant) the limits follow the newest sample whatever the mode
update_x_axisAlways(tseq, st, auto, dw, xl) ==
    IF tseq = <<>> THEN xl
    ELSE LET current_time == RInt(tseq[Len(tseq)] - st)
         IN  <<RMax(RInt(0), RSub(current_time, dw)), RAdd(current_time, RInt(5))>>

\* update_x_axis(): the x limits after it ran; tseq is data.times
update_x_axis(tseq, st, auto, dw, xl) ==
    IF tseq = <<>> THEN xl
    ELSE IF auto
         THEN LET current_time == RInt(tseq[Len(tseq)] - st)
              IN  <<RMax(RInt(0), RSub(current_time, dw)), RAdd(current_time, RInt(5))>>
         ELSE xl

\* new_width = max(10, min(new_width, ROLLING_WINDOW_SEC))
ClampScroll(w) == RMax(RInt(10), RMin(w, RInt(ROLLING_WINDOW_SEC)))

\* on_scroll past its two early returns: the new limits.  xdata is the data
\* coordinate under the cursor.
ScrollLimits(xl, button, xdata) ==
    LET xleft         == xl[1]
        xright        == xl[2]
        current_width == RSub(xright, xleft)
        zoom_factor   == IF button = "down" THEN Rat(6, 5) ELSE Rat(5, 6)
        new_width     == ClampScroll(RMul(current_width, zoom_factor))
        xd            == IF xdata # RInt(0) THEN xdata
                         ELSE RDiv(RAdd(xleft, xright), RInt(2))
        new_xleft     == RSub(xd, RDiv(RMul(new_width, RSub(xd, xleft)), current_width))
    IN  <<new_xleft, RAdd(new_xleft, new_width)>>

\* width * 0.8
ZoomInWidth(w) == RMul(w, Rat(4, 5))

\* min(width * 1.25, ROLLING_WINDOW_SEC)
ZoomOutWidth(w) == RMin(RMul(w, Rat(5, 4)), RInt(ROLLING_WINDOW_SEC))

\* ax.set_xlim(center - new_width/2, center + new_width/2)
Centered(xl, new_width) ==
    LET center == RDiv(RAdd(xl[1], xl[2]), RInt(2))
        half   == RDiv(new_width, RInt(2))
    IN  <<RSub(center, half), RAdd(center, half)>>

\* pan by a tenth of the width; dir is -1 (left) or 1 (right)
Panned(xl, dir) ==
    LET d == RMul(RMul(Width(xl), Rat(1, 10)), RInt(dir))
    IN  <<RAdd(xl[1], d), RAdd(xl[2], d)>>

NavKeys == {"home", "left", "right", "up", "down"}

\* on_scroll(event)
on_scroll(button, inaxes, at) ==
    IF is_stats_view \/ ~inaxes
    THEN UNCHANGED <<auto_scroll, display_window, xlim, navCount>>
    ELSE LET xdata == IF at = "left" THEN xlim[1] ELSE xlim[2]
             nl    == ScrollLimits(xlim, button, xdata)
         IN  /\ xlim' = nl
             /\ display_window' = Width(nl)
             /\ auto_scroll' = FALSE
             /\ navCount' = navCount + 1

\* (mutant) the Home key leaves the display width as it is
on_key_pressHomeKeepsWidth(key) ==
    IF is_stats_view
    THEN UNCHANGED <<auto_scroll, display_window, xlim, navCount>>
    ELSE /\ navCount' = navCount + 1
         /\ CASE key = "home" ->
                    /\ auto_scroll' = TRUE
                    /\ UNCHANGED <<display_window, xlim>>
              [] key = "left" ->
                    /\ xlim' = Panned(xlim, -1)
                    /\ auto_scroll' = FALSE
                    /\ UNCHANGED display_window
              [] key = "right" ->
                    /\ xlim' = Panned(xlim, 1)
                    /\ auto_scroll' = FALSE
                    /\ UNCHANGED display_window
              [] key = "up" ->
                    /\ xlim' = Centered(xlim, ZoomInWidth(Width(xlim)))
                    /\ display_window' = ZoomInWidth(Width(xlim))
                    /\ auto_scroll' = FALSE
              [] key = "down" ->
                    /\ xlim' = Centered(xlim, ZoomOutWidth(Width(xlim)))
                    /\ display_window' = ZoomOutWidth(Width(xlim))
                    /\ auto_scroll' = FALSE

\* (mutant) the view-mode test is missing
on_key_pressUngated(key) ==
    /\ navCount' = navCount + 1
    /\ CASE key = "home" ->
               /\ auto_scroll' = TRUE
               /\ display_window' = RInt(DISPLAY_WINDOW_SEC)
               /\ UNCHANGED xlim
         [] key = "left" ->
               /\ xlim' = Panned(xlim, -1)
               /\ auto_scroll' = FALSE
               /\ UNCHANGED display_window
         [] key = "right" ->
               /\ xlim' = Panned(xlim, 1)
               /\ auto_scroll' = FALSE
               /\ UNCHANGED display_window
         [] key = "up" ->
               /\ xlim' = Centered(xlim, ZoomInWidth(Width(xlim)))
               /\ display_window' = ZoomInWidth(Width(xlim))
               /\ auto_scroll' = FALSE
         [] key = "down" ->
               /\ xlim' = Centered(xlim, ZoomOutWidth(Width(xlim)))
               /\ display_window' = ZoomOutWidth(Width(xlim))
               /\ auto_scroll' = FALSE

\* on_key_press(event), for the keys it handles (NavKeys)
on_key_press(key) ==
    IF is_stats_view
    THEN UNCHANGED <<auto_scroll, display_window, xlim, navCount>>
    ELSE /\ navCount' = navCount + 1
         /\ CASE key = "home" ->
                    /\ auto_scroll' = TRUE
                    /\ display_window' = RInt(DISPLAY_WINDOW_SEC)
                    /\ UNCHANGED xlim
              [] key = "left" ->
                    /\ xlim' = Panned(xlim, -1)
                    /\ auto_scroll' = FALSE
                    /\ UNCHANGED display_window
              [] key = "right" ->
                    /\ xlim' = Panned(xlim, 1)
                    /\ auto_scroll' = FALSE
                    /\ UNCHANGED display_window
              [] key = "up" ->
                    /\ xlim' = Centered(xlim, ZoomInWidth(Width(xlim)))
                    /\ display_window' = ZoomInWidth(Width(xlim))
                    /\ auto_scroll' = FALSE
              [] key = "down" ->
                    /\ xlim' = Centered(xlim, ZoomOutWidth(Width(xlim)))
                    /\ display_window' = ZoomOutWidth(Width(xlim))
                    /\ auto_scroll' = FALSE


-----------------------------------------------------------------------------
(* main(): background shading *)

RECURSIVE SeqMin(_)
SeqMin(q) == IF Len(q) = 1 THEN q[1]
             ELSE LET m == SeqMin(Tail(q)) IN IF q[1] < m THEN q[1] ELSE m

RECURSIVE SeqMax(_)
SeqMax(q) == IF Len(q) = 1 THEN q[1]
             ELSE LET m == SeqMax(Tail(q)) IN IF q[1] > m THEN q[1] ELSE m

\* the order of the material names as Python compares strings
MaterialRank(m) ==
    CASE m = "aluminium" -> 1
      [] m = "baseline"  -> 2
      [] m = "copper"    -> 3
      [] m = "glass"     -> 4
      [] m = "plastic"   -> 5
      [] m = "steel"     -> 6
      [] m = "wood"      -> 7

\* (x, material) tuples as Python compares them
TupleLe(a, b) == a[1] < b[1] \/ (a[1] = b[1] /\ MaterialRank(a[2]) <= MaterialRank(b[2]))

RECURSIVE Insert(_, _)
Insert(e, q) ==
    IF q = <<>> THEN <<e>>
    ELSE IF TupleLe(e, q[1]) THEN <<e>> \o q
         ELSE <<q[1]>> \o Insert(e, Tail(q))

\* sorted(...)
RECURSIVE Sorted(_)
Sorted(q) == IF q = <<>> THEN <<>> ELSE Insert(q[1], Sorted(Tail(q)))

Patch(x0, x1, material) == [x0 |-> x0, x1 |-> x1, color |-> ColorOf(material)]

\* (mutant) each section is coloured by the transition that ends it
RECURSIVE SectionsNextMaterial(_, _, _, _, _)
SectionsNextMaterial(trs, i, prev_x, prev_material, current_x_max) ==
    IF i > Len(trs)
    THEN IF prev_x < current_x_max
         THEN <<Patch(prev_x, current_x_max, prev_material)>>
         ELSE <<>>
    ELSE (IF prev_x < trs[i][1]
          THEN <<Patch(prev_x, trs[i][1], trs[i][2])>>
          ELSE <<>>)
         \o SectionsNextMaterial(trs, i + 1, trs[i][1], trs[i][2], current_x_max)

\* the for loop over transitions and the last section: the patches drawn,
\* from position i on, with prev_x / prev_material as the loop holds them
RECURSIVE Sections(_, _, _, _, _)
Sections(trs, i, prev_x, prev_material, current_x_max) ==
    IF i > Len(trs)
    THEN IF prev_x < current_x_max
         THEN <<Patch(prev_x, current_x_max, prev_material)>>
         ELSE <<>>
    ELSE (IF prev_x < trs[i][1]
          THEN <<Patch(prev_x, trs[i][1], prev_material)>>
          ELSE <<>>)
         \o Sections(trs, i + 1, trs[i][1], trs[i][2], current_x_max)

\* update_background_colors(): the background patches and the face colour
\* after it ran
update_background_colors(tseq, trs, cur, st, fc) ==
    IF tseq = <<>> \/ trs = <<>>
    THEN [patches |-> <<>>, facecolor |-> ColorOf(cur)]
    ELSE LET start_time    == SeqMin(tseq)
             end_time      == SeqMax(tseq)
             current_x_min == start_time - st
             current_x_max == end_time - st
             inside        == SelectSeq(trs,
                                 LAMBDA e : start_time <= e[1] /\ e[1] <= end_time)
             shifted       == [i \in 1..Len(inside) |->
                                 <<inside[i][1] - st, inside[i][2]>>]
             sorted        == Sorted(shifted)
             transitions   == IF sorted = <<>> \/ sorted[Len(sorted)][2] # cur
                              THEN Append(sorted, <<current_x_max, cur>>)
                              ELSE sorted
         IN  [patches   |-> Sections(transitions, 1, current_x_min,
                                     transitions[1][2], current_x_max),
              facecolor |-> fc]

-----------------------------------------------------------------------------
(* main(): the handlers *)

\* a read of the wall clock: a value later than the last one read
ReadClock(t) == t > now

\* sorted values of a sequence of integers
RECURSIVE SortInts(_)
SortInts(q) ==
    IF q = <<>> THEN <<>>
    ELSE LET m == SeqMin(q)
             i == CHOOSE j \in 1..Len(q) : q[j] = m
         IN  <<m>> \o SortInts(SubSeq(q, 1, i - 1) \o SubSeq(q, i + 1, Len(q)))

\* pd.Series(values).median(), values not empty
median(values) ==
    LET s == SortInts(values)
        n == Len(s)
    IN  IF n % 2 = 1 THEN RInt(s[(n + 1) \div 2])
        ELSE Rat(s[n \div 2] + s[n \div 2 + 1], 2)

\* the rows of csv_rows that create_statistics_view scans for a material
MaterialRows(rows, material) ==
    SelectSeq(rows, LAMBDA row : row.material = material /\ row.material # CLEARED)

\* create_statistics_view(): one bar group per material that has SNR values,
\* RSSI and noise medians from csv_rows, the SNR median from snr_by_material
StatisticsBars(by_material, rows) ==
    { [material |-> m,
       rssi  |-> median([i \in 1..Len(MaterialRows(rows, m)) |->
                            MaterialRows(rows, m)[i].rssi_dbm]),
       noise |-> median([i \in 1..Len(MaterialRows(rows, m)) |->
                            MaterialRows(rows, m)[i].noise_dbm]),
       snr   |-> median(by_material[m])] :
      m \in {x \in DOMAIN by_material :
                by_material[x] # <<>> /\ MaterialRows(rows, x) # <<>>} }

\* (mutant) the navigation is left as it was
ResetLiveAxesKeepsNavigation(material) ==
    /\ patches' = <<>>
    /\ bars' = {}
    /\ facecolor' = ColorOf(material)
    /\ xlim' = DefaultXlim
    /\ UNCHANGED <<auto_scroll, display_window>>

\* ax.clear() followed by the live-view set-up with the navigation reset
ResetLiveAxes(material) ==
    /\ patches' = <<>>
    /\ bars' = {}
    /\ facecolor' = ColorOf(material)
    /\ auto_scroll' = TRUE
    /\ display_window' = RInt(DISPLAY_WINDOW_SEC)
    /\ xlim' = DefaultXlim

\* on_key(event); clock holds the values the wall clock can return
on_key(key, clock) ==
    CASE key \in DOMAIN MATERIAL_KEYS ->
            IF ~is_stats_view
            THEN \E t \in clock :
                    /\ ReadClock(t)
                    /\ now' = t
                    /\ set_material(MATERIAL_KEYS[key], t)
                    /\ last' = <<"key", "material">>
                    /\ UNCHANGED <<viewVars, concVars, parseVars, pc, ts, file, navCount>>
            ELSE /\ last' = <<"key", "ignored">>
                 /\ UNCHANGED <<storeVars, viewVars, concVars, parseVars, now, pc, ts, file,
                                navCount, appended>>
      [] key = "b" ->
            IF ~is_stats_view
            THEN /\ current_band' = (IF current_band = "2.4" THEN "5" ELSE "2.4")
                 /\ last' = <<"key", "b">>
                 /\ UNCHANGED <<times, rssi, noise, snr, snr_by_material,
                                material_transitions, current_material, csv_rows,
                                viewVars, concVars, parseVars, now, pc, ts, file, navCount,
                                appended>>
            ELSE /\ last' = <<"key", "ignored">>
                 /\ UNCHANGED <<storeVars, viewVars, concVars, parseVars, now, pc, ts, file,
                                navCount, appended>>
      [] key = "s" ->
            \* create_statistics_view() starts with ax.clear(); the limits of the
            \* bar chart are not read by any handler and are reset on leaving
            /\ is_stats_view' = TRUE
            /\ patches' = <<>>
            /\ bars' = StatisticsBars(snr_by_material, csv_rows)
            /\ facecolor' = "white"
            /\ xlim' = DefaultXlim
            /\ last' = <<"key", "s">>
            /\ UNCHANGED <<storeVars, start, auto_scroll, display_window, concVars, parseVars,
                           now, pc, ts, file, navCount, appended>>
      [] key = "c" ->
            IF is_stats_view
            THEN /\ is_stats_view' = FALSE
                 /\ ResetLiveAxes(current_material)
                 /\ last' = <<"key", "c", "restore">>
                 /\ UNCHANGED <<storeVars, start, concVars, parseVars, now, pc, ts, file,
                                navCount, appended>>
            ELSE \E t1, t2 \in clock :
                    /\ ReadClock(t1)
                    /\ t1 < t2
                    /\ clear_data(t1)
                    /\ ResetLiveAxes("baseline")
                    /\ start' = t2
                    /\ now' = t2
                    /\ last' = <<"key", "c", "clear">>
                    /\ UNCHANGED <<is_stats_view, concVars, parseVars, pc, ts, file, navCount>>
      [] key = "q" ->
            /\ file' = export_csv(csv_rows, file)
            /\ pc' = "closed"
            /\ last' = <<"key", "q">>
            /\ UNCHANGED <<storeVars, viewVars, concVars, parseVars, now, ts, navCount, appended>>


\* (mutant) the view-mode test is missing
update_beginAnyView(clock) ==
    \E t \in clock :
        /\ ReadClock(t)
        /\ now' = t
        /\ ts' = t
        /\ pc' = "acquiring"
        /\ last' = <<"tick", "begin">>
        /\ UNCHANGED <<storeVars, viewVars, concVars, parseVars, file, navCount, appended>>

\* update(_frame) up to the call of read_wifi_metrics_macos()
update_begin(clock) ==
    IF is_stats_view
    THEN /\ last' = <<"tick", "dropped">>
         /\ UNCHANGED <<storeVars, viewVars, concVars, parseVars, now, pc, ts, file, navCount,
                        appended>>
    ELSE \E t \in clock :
            /\ ReadClock(t)
            /\ now' = t
            /\ ts' = t
            /\ pc' = "acquiring"
            /\ last' = <<"tick", "begin">>
            /\ UNCHANGED <<storeVars, viewVars, concVars, parseVars, file, navCount, appended>>

\* (mutant) a failed acquisition records a zero sample
update_errorRecordsZero ==
    /\ append(ts, 0, 0)
    /\ pc' = "idle"
    /\ ts' = 0
    /\ last' = <<"tick", "error">>
    /\ UNCHANGED <<viewVars, concVars, parseVars, now, file, navCount>>

\* except Exception as e: print("Error:", e); return
update_error ==
    /\ pc' = "idle"
    /\ ts' = 0
    /\ last' = <<"tick", "error">>
    /\ UNCHANGED <<storeVars, viewVars, concVars, parseVars, now, file, navCount, appended>>

\* update(_frame) after read_wifi_metrics_macos() returned (r, n)
update_sample(r, n) ==
    /\ append(ts, r, n)
    /\ xlim' = update_x_axis(times', start, auto_scroll, display_window, xlim)
    /\ LET bg == update_background_colors(times', material_transitions',
                                          current_material', start, facecolor)
       IN  patches' = bg.patches /\ facecolor' = bg.facecolor
    /\ pc' = "idle"
    /\ ts' = 0
    /\ last' = <<"tick", "ok">>
    /\ UNCHANGED <<start, is_stats_view, auto_scroll, display_window, bars, concVars, parseVars,
                   now, file, navCount>>

-----------------------------------------------------------------------------
(* Spec: the event loop.  plt.show() runs one callback at a time, so a      *)
(* handler starts only when no other is running (pc = "idle").              *)

Idle == pc = "idle"

\* the program before the first event, apart from the parser's variables
InitProgram ==
    /\ times = <<>> /\ rssi = <<>> /\ noise = <<>> /\ snr = <<>>
    /\ snr_by_material = NoSnr
    /\ material_transitions = <<>>
    /\ current_material = "baseline"
    /\ current_band = "2.4"
    /\ csv_rows = <<>>
    /\ csv_lock = "free"
    /\ start = 0
    /\ is_stats_view = FALSE
    /\ auto_scroll = TRUE
    /\ display_window = RInt(DISPLAY_WINDOW_SEC)
    /\ xlim = DefaultXlim
    /\ patches = <<>>
    /\ facecolor = ColorOf("baseline")
    /\ bars = {}
    /\ now = 0
    /\ pc = "idle"
    /\ ts = 0
    /\ file = NoFile
    /\ navCount = 0
    /\ pcS = "idle" /\ pcI = "idle" /\ argS = <<>> /\ argI = <<>>
    /\ appended = <<>>
    /\ last = <<"init">>

Init == InitProgram /\ txt = <<>> /\ parsed = Pending

TickBegin(clock) == Idle /\ update_begin(clock)

TickError == pc = "acquiring" /\ update_error

TickSample(readings, maxRows) ==
    /\ pc = "acquiring"
    /\ Len(csv_rows) < maxRows
    /\ \E rd \in readings : update_sample(rd[1], rd[2])

MaterialKey(keys, clock) == Idle /\ \E key \in keys : on_key(key, clock)

BandKey == Idle /\ on_key("b", {})

StatsKey == Idle /\ on_key("s", {})

ClearKey(maxRows, clock) ==
    /\ Idle
    /\ is_stats_view \/ Len(csv_rows) < maxRows
    /\ on_key("c", clock)

QuitKey == Idle /\ on_key("q", {})

\* both key handlers are connected to key_press_event; on_key has no branch for
\* the keys of on_key_press
NavEvent(key) ==
    /\ on_key_press(key)
    /\ last' = <<"key", IF is_stats_view THEN "ignored" ELSE key>>
    /\ UNCHANGED <<storeVars, start, is_stats_view, patches, facecolor, bars,
                   concVars, parseVars, now, pc, ts, file, appended>>

ScrollEvent(button, inaxes, at) ==
    /\ on_scroll(button, inaxes, at)
    /\ last' = <<"scroll", IF is_stats_view \/ ~inaxes THEN "ignored" ELSE button>>
    /\ UNCHANGED <<storeVars, start, is_stats_view, patches, facecolor, bars,
                   concVars, parseVars, now, pc, ts, file, appended>>

NavKey(maxNav) ==
    /\ Idle
    /\ is_stats_view \/ navCount < maxNav
    /\ \E key \in NavKeys : NavEvent(key)

Scroll(maxNav) ==
    /\ Idle
    /\ is_stats_view \/ navCount < maxNav
    /\ \E button \in {"up", "down"}, inaxes \in BOOLEAN, at \in {"left", "right"} :
          ScrollEvent(button, inaxes, at)

\* the window is closed by the window manager: plt.show() returns
CloseWindow ==
    /\ Idle
    /\ pc' = "closed"
    /\ last' = <<"close">>
    /\ UNCHANGED <<storeVars, viewVars, concVars, parseVars, now, ts, file, navCount, appended>>

\* data.export_csv(CSV_FILENAME) after plt.show() returned
Exit ==
    /\ pc = "closed"
    /\ file' = export_csv(csv_rows, file)
    /\ pc' = "done"
    /\ last' = <<"exit", last[1]>>
    /\ UNCHANGED <<storeVars, viewVars, concVars, parseVars, now, ts, navCount, appended>>

\* Spec: the sampling ticks and the keys that act on the store and the view
\* mode.  on_scroll and on_key_press assign only auto_scroll, display_window and
\* the x limits; they are explored in SpecView.
Next ==
    \/ TickBegin(Instants)
    \/ TickError
    \/ TickSample(Readings, MaxRows)
    \/ MaterialKey(KeyInputs, Instants)
    \/ BandKey
    \/ StatsKey
    \/ ClearKey(MaxRows, Instants)
    \/ QuitKey
    \/ CloseWindow
    \/ Exit

Spec == Init /\ [][Next]_vars

\* SpecView: the same program with the viewport inputs, under fewer samples
NextView ==
    \/ TickBegin(ViewInstants)
    \/ TickError
    \/ TickSample(ViewReadings, MaxRowsView)
    \/ MaterialKey(ViewKeyInputs, ViewInstants)
    \/ BandKey
    \/ StatsKey
    \/ ClearKey(MaxRowsView, ViewInstants)
    \/ QuitKey
    \/ NavKey(MaxNavView)
    \/ Scroll(MaxNavView)
    \/ CloseWindow
    \/ Exit

SpecView == Init /\ [][NextView]_vars

-----------------------------------------------------------------------------
(* SpecParse: parse_wdutil_output applied to every text of at most MaxLines  *)
(* lines drawn from ParseLines in any order, alone and followed by another   *)
(* section that holds a field of the same name                               *)

TrailingSections == {<<>>,
                     <<BluetoothHeader, OtherRssiLine>>,
                     <<BluetoothHeader, OtherNoiseLine>>}

LineSeqs == UNION {[1..k -> ParseLines] : k \in 0..MaxLines}

InitParse ==
    /\ InitProgram
    /\ \E ls \in LineSeqs, section \in TrailingSections : txt = JoinLines(ls \o section)
    /\ parsed = Pending

\* return parse_wdutil_output(out)
Parse ==
    /\ parsed = Pending
    /\ parsed' = parse_wdutil_output(txt)
    /\ UNCHANGED <<storeVars, viewVars, concVars, txt, now, pc, ts, file, navCount,
                   appended, last>>

NextParse == Parse

SpecParse == InitParse /\ [][NextParse]_vars

-----------------------------------------------------------------------------
(* SpecConc: LiveData called from a sampling thread (S: append) and an input *)
(* thread (I: set_material, band toggle, clear_data, export_csv, the scan of *)
(* create_statistics_view).  One statement is one step.                      *)

\* (mutant) the lock is granted while it is held
CanAcquireHeld == TRUE

\* with self._csv_lock: entry is granted when no thread holds the lock
CanAcquire == csv_lock = "free"

mainVars == <<viewVars, pc, ts, navCount, appended, last>>

SIdle == <<>>

\* ---- thread S: append(ts, rssi, noise), lines 104-121

S_call ==
    /\ pcS = "idle"
    /\ \E t \in ConcInstants, rd \in ViewReadings :
          /\ ReadClock(t)
          /\ now' = t
          /\ argS = SIdle
          /\ argS' = [ts |-> t, rssi |-> rd[1], noise |-> rd[2],
                      snr |-> SnrOf(rd[1], rd[2]), cutoff |-> Cutoff(t),
                      kept |-> <<>>]
    /\ pcS' = "times"
    /\ UNCHANGED <<storeVars, csv_lock, pcI, argI, file, mainVars, parseVars>>

S_times ==
    /\ pcS = "times"
    /\ times' = Append(times, argS.ts)
    /\ pcS' = "rssi"
    /\ UNCHANGED <<rssi, noise, snr, snr_by_material, material_transitions,
                   current_material, current_band, csv_rows, csv_lock, argS, pcI,
                   argI, now, file, mainVars, parseVars>>

S_rssi ==
    /\ pcS = "rssi"
    /\ rssi' = Append(rssi, argS.rssi)
    /\ pcS' = "noise"
    /\ UNCHANGED <<times, noise, snr, snr_by_material, material_transitions,
                   current_material, current_band, csv_rows, csv_lock, argS, pcI,
                   argI, now, file, mainVars, parseVars>>

S_noise ==
    /\ pcS = "noise"
    /\ noise' = Append(noise, argS.noise)
    /\ pcS' = "snr"
    /\ UNCHANGED <<times, rssi, snr, snr_by_material, material_transitions,
                   current_material, current_band, csv_rows, csv_lock, argS, pcI,
                   argI, now, file, mainVars, parseVars>>

S_snr ==
    /\ pcS = "snr"
    /\ snr' = Append(snr, argS.snr)
    /\ pcS' = "loop"
    /\ UNCHANGED <<times, rssi, noise, snr_by_material, material_transitions,
                   current_material, current_band, csv_rows, csv_lock, argS, pcI,
                   argI, now, file, mainVars, parseVars>>

\* while self.times and self.times[0] < cutoff
S_loop ==
    /\ pcS = "loop"
    /\ pcS' = IF Expired(times, argS.cutoff) THEN "pop_times" ELSE "prune_read"
    /\ UNCHANGED <<storeVars, csv_lock, argS, pcI, argI, now, file, mainVars, parseVars>>

\* popleft() of an empty deque raises IndexError, which ends the call
S_pop_times ==
    /\ pcS = "pop_times"
    /\ IF times = <<>>
       THEN pcS' = "raised" /\ UNCHANGED times
       ELSE pcS' = "pop_rssi" /\ times' = Tail(times)
    /\ UNCHANGED <<rssi, noise, snr, snr_by_material, material_transitions,
                   current_material, current_band, csv_rows, csv_lock, argS, pcI,
                   argI, now, file, mainVars, parseVars>>

S_pop_rssi ==
    /\ pcS = "pop_rssi"
    /\ IF rssi = <<>>
       THEN pcS' = "raised" /\ UNCHANGED rssi
       ELSE pcS' = "pop_noise" /\ rssi' = Tail(rssi)
    /\ UNCHANGED <<times, noise, snr, snr_by_material, material_transitions,
                   current_material, current_band, csv_rows, csv_lock, argS, pcI,
                   argI, now, file, mainVars, parseVars>>

S_pop_noise ==
    /\ pcS = "pop_noise"
    /\ IF noise = <<>>
       THEN pcS' = "raised" /\ UNCHANGED noise
       ELSE pcS' = "pop_snr" /\ noise' = Tail(noise)
    /\ UNCHANGED <<times, rssi, snr, snr_by_material, material_transitions,
                   current_material, current_band, csv_rows, csv_lock, argS, pcI,
                   argI, now, file, mainVars, parseVars>>

S_pop_snr ==
    /\ pcS = "pop_snr"
    /\ IF snr = <<>>
       THEN pcS' = "raised" /\ UNCHANGED snr
       ELSE pcS' = "loop" /\ snr' = Tail(snr)
    /\ UNCHANGED <<times, rssi, noise, snr_by_material, material_transitions,
                   current_material, current_band, csv_rows, csv_lock, argS, pcI,
                   argI, now, file, mainVars, parseVars>>

\* the list comprehension of line 111 is built from the list as it is now ...
S_prune_read ==
    /\ pcS = "prune_read"
    /\ argS' = [argS EXCEPT !.kept = PruneTransitions(material_transitions, argS.cutoff)]
    /\ pcS' = "prune_write"
    /\ UNCHANGED <<storeVars, csv_lock, pcI, argI, now, file, mainVars, parseVars>>

\* ... and assigned to self.material_transitions afterwards
S_prune_write ==
    /\ pcS = "prune_write"
    /\ material_transitions' = argS.kept
    /\ pcS' = "acc"
    /\ UNCHANGED <<times, rssi, noise, snr, snr_by_material, current_material,
                   current_band, csv_rows, csv_lock, argS, pcI, argI, now, file,
                   mainVars, parseVars>>

S_acc ==
    /\ pcS = "acc"
    /\ snr_by_material' =
           [snr_by_material EXCEPT ![current_material] = Append(@, argS.snr)]
    /\ pcS' = "lock"
    /\ UNCHANGED <<times, rssi, noise, snr, material_transitions, current_material,
                   current_band, csv_rows, csv_lock, argS, pcI, argI, now, file,
                   mainVars, parseVars>>

S_lock ==
    /\ pcS = "lock"
    /\ CanAcquire
    /\ csv_lock' = "S"
    /\ pcS' = "csv"
    /\ UNCHANGED <<storeVars, argS, pcI, argI, now, file, mainVars, parseVars>>

S_csv ==
    /\ pcS = "csv"
    /\ csv_rows' = Append(csv_rows,
           SampleRow(argS.ts, current_band, current_material,
                     argS.rssi, argS.noise, argS.snr))
    /\ pcS' = "unlock"
    /\ UNCHANGED <<times, rssi, noise, snr, snr_by_material, material_transitions,
                   current_material, current_band, csv_lock, argS, pcI, argI, now,
                   file, mainVars, parseVars>>

S_unlock ==
    /\ pcS = "unlock"
    /\ csv_lock' = "free"
    /\ pcS' = "idle"
    /\ argS' = SIdle
    /\ UNCHANGED <<storeVars, pcI, argI, now, file, mainVars, parseVars>>

\* ---- thread I: set_material(material, timestamp), lines 123-126

I_material ==
    /\ pcI = "idle"
    /\ \E key \in ConcKeyInputs, t \in ConcInstants :
          /\ ReadClock(t)
          /\ now' = t
          /\ current_material' = MATERIAL_KEYS[key]
          /\ argI' = <<t, MATERIAL_KEYS[key]>>
    /\ pcI' = "m_append"
    /\ UNCHANGED <<times, rssi, noise, snr, snr_by_material, material_transitions,
                   current_band, csv_rows, csv_lock, pcS, argS, file, mainVars, parseVars>>

I_material_append ==
    /\ pcI = "m_append"
    /\ material_transitions' = Append(material_transitions, argI)
    /\ pcI' = "idle"
    /\ argI' = <<>>
    /\ UNCHANGED <<times, rssi, noise, snr, snr_by_material, current_material,
                   current_band, csv_rows, csv_lock, pcS, argS, now, file, mainVars, parseVars>>

\* ---- thread I: the band toggle of on_key, line 530

I_band ==
    /\ pcI = "idle"
    /\ current_band' = (IF current_band = "2.4" THEN "5" ELSE "2.4")
    /\ UNCHANGED <<times, rssi, noise, snr, snr_by_material, material_transitions,
                   current_material, csv_rows, csv_lock, pcS, argS, pcI, argI, now,
                   file, mainVars, parseVars>>

\* ---- thread I: clear_data(), lines 128-147

I_clear_times ==
    /\ pcI = "idle"
    /\ Len(SelectSeq(csv_rows, LAMBDA row : row.material = CLEARED)) < MaxClearsConc
    /\ times' = <<>>
    /\ pcI' = "c_rssi"
    /\ UNCHANGED <<rssi, noise, snr, snr_by_material, material_transitions,
                   current_material, current_band, csv_rows, csv_lock, pcS, argS,
                   argI, now, file, mainVars, parseVars>>

I_clear_rssi ==
    /\ pcI = "c_rssi"
    /\ rssi' = <<>>
    /\ pcI' = "c_noise"
    /\ UNCHANGED <<times, noise, snr, snr_by_material, material_transitions,
                   current_material, current_band, csv_rows, csv_lock, pcS, argS,
                   argI, now, file, mainVars, parseVars>>

I_clear_noise ==
    /\ pcI = "c_noise"
    /\ noise' = <<>>
    /\ pcI' = "c_snr"
    /\ UNCHANGED <<times, rssi, snr, snr_by_material, material_transitions,
                   current_material, current_band, csv_rows, csv_lock, pcS, argS,
                   argI, now, file, mainVars, parseVars>>

I_clear_snr ==
    /\ pcI = "c_snr"
    /\ snr' = <<>>
    /\ pcI' = "c_acc"
    /\ UNCHANGED <<times, rssi, noise, snr_by_material, material_transitions,
                   current_material, current_band, csv_rows, csv_lock, pcS, argS,
                   argI, now, file, mainVars, parseVars>>

I_clear_acc ==
    /\ pcI = "c_acc"
    /\ snr_by_material' = NoSnr
    /\ pcI' = "c_trans"
    /\ UNCHANGED <<times, rssi, noise, snr, material_transitions, current_material,
                   current_band, csv_rows, csv_lock, pcS, argS, argI, now, file,
                   mainVars, parseVars>>

I_clear_trans ==
    /\ pcI = "c_trans"
    /\ material_transitions' = <<>>
    /\ pcI' = "c_mat"
    /\ UNCHANGED <<times, rssi, noise, snr, snr_by_material, current_material,
                   current_band, csv_rows, csv_lock, pcS, argS, argI, now, file,
                   mainVars, parseVars>>

I_clear_mat ==
    /\ pcI = "c_mat"
    /\ current_material' = "baseline"
    /\ pcI' = "c_lock"
    /\ UNCHANGED <<times, rssi, noise, snr, snr_by_material, material_transitions,
                   current_band, csv_rows, csv_lock, pcS, argS, argI, now, file,
                   mainVars, parseVars>>

I_clear_lock ==
    /\ pcI = "c_lock"
    /\ CanAcquire
    /\ csv_lock' = "I"
    /\ pcI' = "c_csv"
    /\ UNCHANGED <<storeVars, pcS, argS, argI, now, file, mainVars, parseVars>>

\* datetime.now() of the sentinel: the wall clock as it stands
I_clear_csv ==
    /\ pcI = "c_csv"
    /\ csv_rows' = Append(csv_rows, SentinelRow(now, current_band))
    /\ pcI' = "c_unlock"
    /\ UNCHANGED <<times, rssi, noise, snr, snr_by_material, material_transitions,
                   current_material, current_band, csv_lock, pcS, argS, argI, now,
                   file, mainVars, parseVars>>

I_clear_unlock ==
    /\ pcI = "c_unlock"
    /\ csv_lock' = "free"
    /\ pcI' = "idle"
    /\ UNCHANGED <<storeVars, pcS, argS, argI, now, file, mainVars, parseVars>>

\* ---- thread I: export_csv(filename), lines 149-152

I_export_lock ==
    /\ pcI = "idle"
    /\ CanAcquire
    /\ csv_lock' = "I"
    /\ pcI' = "e_write"
    /\ UNCHANGED <<storeVars, pcS, argS, argI, now, file, mainVars, parseVars>>

I_export_write ==
    /\ pcI = "e_write"
    /\ file' = export_csv(csv_rows, file)
    /\ pcI' = "e_unlock"
    /\ UNCHANGED <<storeVars, csv_lock, pcS, argS, argI, now, mainVars, parseVars>>

I_export_unlock ==
    /\ pcI = "e_unlock"
    /\ csv_lock' = "free"
    /\ pcI' = "idle"
    /\ UNCHANGED <<storeVars, pcS, argS, argI, now, file, mainVars, parseVars>>

\* ---- thread I: the scan of csv_rows in create_statistics_view, lines 389-393,
\* for one material that has accumulated values

I_scan_lock ==
    /\ pcI = "idle"
    /\ CanAcquire
    /\ \E m \in Materials : snr_by_material[m] # <<>> /\ argI' = <<m>>
    /\ csv_lock' = "I"
    /\ pcI' = "s_scan"
    /\ UNCHANGED <<storeVars, pcS, argS, now, file, mainVars, parseVars>>

I_scan_rows ==
    /\ pcI = "s_scan"
    /\ argI' = <<argI[1],
                 SelectSeq(csv_rows,
                     LAMBDA row : row.material = argI[1] /\ row.material # CLEARED)>>
    /\ pcI' = "s_unlock"
    /\ UNCHANGED <<storeVars, csv_lock, pcS, argS, now, file, mainVars, parseVars>>

I_scan_unlock ==
    /\ pcI = "s_unlock"
    /\ csv_lock' = "free"
    /\ pcI' = "idle"
    /\ argI' = <<>>
    /\ UNCHANGED <<storeVars, pcS, argS, now, file, mainVars, parseVars>>

NextConc ==
    \/ S_call \/ S_times \/ S_rssi \/ S_noise \/ S_snr \/ S_loop
    \/ S_pop_times \/ S_pop_rssi \/ S_pop_noise \/ S_pop_snr
    \/ S_prune_read \/ S_prune_write \/ S_acc \/ S_lock \/ S_csv \/ S_unlock
    \/ I_material \/ I_material_append \/ I_band
    \/ I_clear_times \/ I_clear_rssi \/ I_clear_noise \/ I_clear_snr
    \/ I_clear_acc \/ I_clear_trans \/ I_clear_mat
    \/ I_clear_lock \/ I_clear_csv \/ I_clear_unlock
    \/ I_export_lock \/ I_export_write \/ I_export_unlock
    \/ I_scan_lock \/ I_scan_rows \/ I_scan_unlock

SpecConc == Init /\ [][NextConc]_vars

-----------------------------------------------------------------------------
(* Properties *)

StrictlyIncreasing(q) == \A i \in 1..Len(q) - 1 : q[i] < q[i + 1]

Timestamps(app) == [i \in 1..Len(app) |-> app[i][1]]

\* the appended samples not older than the retention window of the latest one
Retained(app) ==
    SelectSeq(app, LAMBDA e : e[1] >= app[Len(app)][1] - window_sec)

\* C1: with strictly increasing append timestamps, the Live Series holds exactly
\* the appended samples with timestamp >= latest - window_sec (a sample at the
\* cutoff is kept), in increasing timestamp order, and nothing else.
C1_LiveSeriesIsRetentionWindow ==
    (appended # <<>> /\ StrictlyIncreasing(Timestamps(appended))) =>
        LET kept == Retained(appended)
        IN  /\ times = [i \in 1..Len(kept) |-> kept[i][1]]
            /\ rssi  = [i \in 1..Len(kept) |-> kept[i][2]]
            /\ noise = [i \in 1..Len(kept) |-> kept[i][3]]
            /\ snr   = [i \in 1..Len(kept) |-> kept[i][2] - kept[i][3]]
            /\ StrictlyIncreasing(times)

\* an append evicted an older sample and kept one exactly at the cutoff
C1_Witness ==
    /\ last = <<"tick", "ok">>
    /\ Len(times) < Len(appended)
    /\ Len(times) >= 2
    /\ times[1] = times[Len(times)] - window_sec

\* C2: every retained sample and every Export Log record (the sentinels of
\* clear included) has snr = rssi - noise.
C2_SnrIsSignalMinusNoise ==
    /\ Len(rssi) = Len(snr) /\ Len(noise) = Len(snr)
    /\ \A i \in 1..Len(snr) : snr[i] = rssi[i] - noise[i]
    /\ \A i \in 1..Len(csv_rows) :
          csv_rows[i].snr_db = csv_rows[i].rssi_dbm - csv_rows[i].noise_dbm

\* a sentinel, then a sample that is retained and exported
C2_Witness ==
    /\ Len(csv_rows) >= 2
    /\ csv_rows[1].material = CLEARED
    /\ csv_rows[2].material # CLEARED
    /\ Len(snr) >= 1

ClearLabel == <<"key", "c", "clear">>

\* C3: clear empties the Live Series, the Transition list and the accumulators,
\* sets the material to "baseline", keeps the band and the earlier Export Log
\* records, and appends exactly one record, the sentinel.
C3_ClearEffect ==
    [][last' = ClearLabel =>
          /\ times' = <<>> /\ rssi' = <<>> /\ noise' = <<>> /\ snr' = <<>>
          /\ material_transitions' = <<>>
          /\ \A m \in Materials : snr_by_material'[m] = <<>>
          /\ current_material' = "baseline"
          /\ current_band' = current_band
          /\ Len(csv_rows') = Len(csv_rows) + 1
          /\ SubSeq(csv_rows', 1, Len(csv_rows)) = csv_rows
          /\ csv_rows'[Len(csv_rows')].material = CLEARED]_vars

\* a clear of a store that held a sample, a transition and the band "5"
C3_Witness ==
    /\ last = ClearLabel
    /\ Len(csv_rows) >= 2
    /\ csv_rows[Len(csv_rows) - 1].material = "wood"
    /\ current_band = "5"

\* C4: in Statistics view a tick acquires nothing and changes nothing; no tick
\* is queued, so every successful tick appends exactly one sample.
C4_TicksDroppedInStatistics ==
    [][/\ (is_stats_view /\ last'[1] = "tick") =>
              /\ UNCHANGED <<storeVars, appended, viewVars, file, ts>>
              /\ pc' = "idle"
       /\ last' = <<"tick", "ok">> =>
              /\ ~is_stats_view
              /\ Len(appended') = Len(appended) + 1
              /\ Len(csv_rows') = Len(csv_rows) + 1
              /\ Len(times') <= Len(times) + 1]_vars

\* a tick dropped in Statistics view over a store that holds samples
C4_Witness ==
    /\ is_stats_view
    /\ last = <<"tick", "dropped">>
    /\ Len(times) >= 1

\* C5: a tick whose acquisition fails leaves the store unchanged, stays in Live
\* view and returns the loop to idle, from where the next tick starts.
C5_FailedTickChangesNothing ==
    [][/\ last' = <<"tick", "begin">> => UNCHANGED <<storeVars, appended>>
       /\ last' = <<"tick", "error">> =>
              /\ UNCHANGED <<storeVars, appended, viewVars, file>>
              /\ ~is_stats_view'
              /\ pc' = "idle"]_vars

\* a failed tick over a store that holds a sample and a transition
C5_Witness ==
    /\ last = <<"tick", "error">>
    /\ Len(times) >= 1
    /\ Len(material_transitions) >= 1

\* the handlers of the input task: keys and scroll wheel
InputEvent ==
    \/ MaterialKey(KeyInputs, Instants)
    \/ BandKey
    \/ StatsKey
    \/ ClearKey(MaxRows, Instants)
    \/ QuitKey
    \/ NavKey(MaxNavView)
    \/ Scroll(MaxNavView)

\* C7: while the acquisition of a tick is in flight, a pending key or scroll
\* event can be handled before the acquisition returns.
C7_InputHandledDuringAcquisition ==
    pc = "acquiring" => ENABLED InputEvent

ZoomLabels == {<<"scroll", "up">>, <<"scroll", "down">>, <<"key", "up">>, <<"key", "down">>}

\* C9: after a zoom action (scroll wheel, up / down arrow) the viewport width
\* lies in [10, ROLLING_WINDOW_SEC].
C9_ZoomWidthInRange ==
    last \in ZoomLabels =>
        /\ RLe(RInt(10), Width(xlim))
        /\ RLe(Width(xlim), RInt(ROLLING_WINDOW_SEC))

\* elapsed time of transition i
TransitionX(i) == material_transitions[i][1] - start

\* the intervals C10 names, each with its material's colour; empty intervals
\* are not drawn
ExpectedShading ==
    LET n      == Len(material_transitions)
        oldest == times[1] - start
        latest == times[Len(times)] - start
    IN  {Patch(oldest, TransitionX(1), material_transitions[1][2]) :
             k \in {j \in {1} : oldest < TransitionX(1)}}
        \cup
        {Patch(TransitionX(i), TransitionX(i + 1), material_transitions[i][2]) :
             i \in {j \in 1..n - 1 : TransitionX(j) < TransitionX(j + 1)}}
        \cup
        {Patch(TransitionX(n), latest, material_transitions[n][2]) :
             k \in {j \in {1} : TransitionX(n) < latest}}

TransitionsRetained ==
    /\ material_transitions # <<>>
    /\ times # <<>>
    /\ \A i \in 1..Len(material_transitions) :
          /\ times[1] <= material_transitions[i][1]
          /\ material_transitions[i][1] <= times[Len(times)]

\* C10: when every transition lies in the retained time range, the background
\* drawn by a tick shades [t_i, t_i+1) with the material of transition i,
\* [t_last, latest] with the material of the last transition, which is the
\* current material, and [oldest, t_1) with the material of the first one.
C10_BackgroundReplay ==
    (last = <<"tick", "ok">> /\ TransitionsRetained) =>
        /\ material_transitions[Len(material_transitions)][2] = current_material
        /\ {patches[k] : k \in 1..Len(patches)} = ExpectedShading
        /\ Len(patches) = Cardinality(ExpectedShading)
        /\ \A k \in 1..Len(patches) - 1 : patches[k].x1 = patches[k + 1].x0

\* transitions (10, wood), (25, glass), latest sample at 30, material glass; the
\* oldest sample is the one of the first tick, at 5
C10_Witness ==
    /\ last = <<"tick", "ok">>
    /\ start = 0
    /\ material_transitions = <<<<10, "wood">>, <<25, "glass">>>>
    /\ current_material = "glass"
    /\ times = <<5, 30>>
    /\ patches = <<Patch(5, 10, "wood"), Patch(10, 25, "wood"), Patch(25, 30, "glass")>>

RECURSIVE SumLen(_, _)
SumLen(f, S) ==
    IF S = {} THEN 0
    ELSE LET m == CHOOSE x \in S : TRUE IN Len(f[m]) + SumLen(f, S \ {m})

\* the records written since the last sentinel
RECURSIVE SinceClear(_)
SinceClear(rows) ==
    IF rows = <<>> \/ rows[Len(rows)].material = CLEARED THEN <<>>
    ELSE Append(SinceClear(SubSeq(rows, 1, Len(rows) - 1)), rows[Len(rows)])

Quiescent == pcS = "idle" /\ pcI = "idle"

\* C6: with append interleaved with clear, set_condition and the band toggle,
\* no call fails and, when no call is in progress, the store is one a serial
\* order produces: the four series have equal length and every sample appended
\* since the last clear has one accumulator entry and one Export Log record.
C6_ConcurrentStoreIsSerial ==
    /\ pcS # "raised"
    /\ Quiescent =>
          /\ Len(times) = Len(rssi) /\ Len(rssi) = Len(noise) /\ Len(noise) = Len(snr)
          /\ SumLen(snr_by_material, Materials) = Len(SinceClear(csv_rows))
          /\ Len(times) <= Len(SinceClear(csv_rows))

HoldsS == pcS \in {"csv", "unlock"}
HoldsI == pcI \in {"c_csv", "c_unlock", "e_write", "e_unlock", "s_scan", "s_unlock"}

IsPrefix(p, q) == Len(p) <= Len(q) /\ SubSeq(q, 1, Len(p)) = p

\* C8: csv_rows is read and written only under the lock: at most one of
\* append, clear_data, export_csv and the statistics scan is inside its
\* critical section, and the file an export wrote holds whole records, a prefix
\* of the Export Log.
C8_ExportLogUnderLock ==
    /\ ~(HoldsS /\ HoldsI)
    /\ (csv_lock = "S") = HoldsS
    /\ (csv_lock = "I") = HoldsI
    /\ file # NoFile =>
          /\ Len(file) >= 2
          /\ IsPrefix(file, to_csv(csv_rows))

\* the sampler waits for the lock while an export writes a non-empty log
C8_Witness ==
    /\ pcS = "lock"
    /\ pcI = "e_unlock"
    /\ csv_lock = "I"
    /\ file # NoFile

-----------------------------------------------------------------------------
(* Properties of parse_wdutil_output (SpecParse) *)

\* the lines of txt as the loop sees them
StrippedLines == [i \in 1..Len(splitlines(txt)) |-> strip(splitlines(txt)[i])]

\* an all-caps colon-free header
IsHeader(line) == isupper(line) /\ ~Contains(line, <<":">>)

\* line i lies between a WIFI header and the next all-caps colon-free header
InWifiSection(ls, i) ==
    \E j \in 1..(i - 1) :
        /\ ls[j] = WifiHeader
        /\ \A k \in (j + 1)..i : ~IsHeader(ls[k])

\* what follows the first colon of a line
AfterColon(line) == SubSeq(line, IndexOf(line, ":") + 1, Len(line))

\* the line names the field and a signed integer follows its colon
HoldsField(line, label) ==
    /\ Contains(line, label)
    /\ Contains(line, <<":">>)
    /\ FirstInt(AfterColon(line)) # <<>>

\* the values of a field on the lines of ls that satisfy Where(ls, i)
FieldValues(ls, label, Where(_, _)) ==
    {float(FirstInt(AfterColon(ls[i]))[1]) :
        i \in {k \in 1..Len(ls) : Where(ls, k) /\ HoldsField(ls[k], label)}}

OutsideWifiSection(ls, i) == ~InWifiSection(ls, i)

RssiLabel == <<"R", "S", "S", "I">>
NoiseLabel == <<"N", "o", "i", "s", "e">>

\* the text without the lines that are outside the WIFI section
WifiSectionOnly(ls) ==
    LET kept == SelectSeq([i \in 1..Len(ls) |-> <<i, ls[i]>>],
                          LAMBDA e : e[2] = WifiHeader \/ InWifiSection(ls, e[1]))
    IN  JoinLines([k \in 1..Len(kept) |-> kept[k][2]])

\* C11: no value is taken from a line outside the WIFI section: a returned
\* RSSI (Noise) is the value of an RSSI (Noise) line between a WIFI header and
\* the next all-caps colon-free header, and the outcome is the one for the
\* text with every line outside the WIFI section removed.
C11_OnlyWifiSectionIsRead ==
    parsed # Pending =>
        /\ parsed # ValueError =>
              /\ parsed[2] # None /\ parsed[3] # None
              /\ parsed[2][1] \in FieldValues(StrippedLines, RssiLabel, InWifiSection)
              /\ parsed[3][1] \in FieldValues(StrippedLines, NoiseLabel, InWifiSection)
        /\ parsed = parse_wdutil_output(WifiSectionOnly(StrippedLines))

\* a pair is returned although a section after WIFI holds an RSSI line with
\* another value
C11_Witness ==
    /\ parsed # Pending /\ parsed # ValueError
    /\ \E i \in 1..Len(StrippedLines) :
          /\ StrippedLines[i] = BluetoothHeader
          /\ \E j \in 1..(i - 1) : StrippedLines[j] = WifiHeader
          /\ \E j \in (i + 1)..Len(StrippedLines) :
                /\ HoldsField(StrippedLines[j], RssiLabel)
                /\ OutsideWifiSection(StrippedLines, j)
                /\ Some(float(FirstInt(AfterColon(StrippedLines[j]))[1])) # parsed[2]

\* "WIFI\nRSSI : -40 dBm\nNoise : -90 dBm\n"
ExampleText == JoinLines(<<WifiHeader, RssiLine, NoiseLine>>)

\* C12: the call raises the parse error exactly when the WIFI section holds no
\* RSSI value or no Noise value (no WIFI section included); otherwise it
\* returns values of the WIFI section, (-40.0, -90.0) for the text
\* "WIFI\nRSSI : -40 dBm\nNoise : -90 dBm\n".
C12_ParseErrorIffFieldMissing ==
    parsed # Pending =>
        /\ parsed = ValueError <=>
              \/ FieldValues(StrippedLines, RssiLabel, InWifiSection) = {}
              \/ FieldValues(StrippedLines, NoiseLabel, InWifiSection) = {}
        /\ parsed # ValueError =>
              \E r \in FieldValues(StrippedLines, RssiLabel, InWifiSection),
                 n \in FieldValues(StrippedLines, NoiseLabel, InWifiSection) :
                    parsed = Returned(Some(r), Some(n))
        /\ txt = ExampleText => parsed = Returned(Some(-40), Some(-90))

\* a WIFI section with an RSSI value and no Noise line: the call raised
C12_Witness ==
    /\ parsed = ValueError
    /\ FieldValues(StrippedLines, RssiLabel, InWifiSection) # {}
    /\ \A i \in 1..Len(StrippedLines) : ~Contains(StrippedLines[i], NoiseLabel)

-----------------------------------------------------------------------------
(* Properties of the Export Log and of the export *)

\* C13: the Export Log only grows at its end: in every step, whatever the
\* handler (tick with or without eviction, material key, band key, clear, view
\* switch, export), the records it held stay at their positions with their
\* content.
C13_ExportLogAppendOnly ==
    [][/\ Len(csv_rows') >= Len(csv_rows)
       /\ SubSeq(csv_rows', 1, Len(csv_rows)) = csv_rows]_vars

\* a clear and then an eviction from the Live Series have happened, and the
\* log holds the sentinel and both samples
C13_Witness ==
    /\ Len(csv_rows) = 3
    /\ csv_rows[1].material = CLEARED
    /\ Len(appended) = 2
    /\ Len(times) = 1
    /\ csv_rows[2].timestamp = isoformat(appended[1][1])
    /\ csv_rows[3].timestamp = isoformat(times[1])

\* the steps that call data.export_csv(CSV_FILENAME)
ExportStep == last' = <<"key", "q">> \/ last'[1] = "exit"

\* C14: an export changes nothing in the store; it writes nothing when the
\* Export Log is empty and the whole log otherwise; the export at exit, made
\* right after the one of the quit key, leaves the file as it was.
C14_ExportIdempotent ==
    [][ExportStep =>
          /\ UNCHANGED storeVars
          /\ csv_rows = <<>> => file' = file
          /\ csv_rows # <<>> => file' = to_csv(csv_rows)
          /\ (last = <<"key", "q">> /\ last'[1] = "exit") => file' = file]_vars

\* the second of two exports in a row has run on a log that is not empty
C14_Witness ==
    /\ last = <<"exit", "key">>
    /\ pc = "done"
    /\ csv_rows # <<>>
    /\ file = to_csv(csv_rows)

\* the fields of an Export Log record as one line of the file
FileLine(row) ==
    <<row.timestamp, row.band, row.material, row.rssi_dbm, row.noise_dbm, row.snr_db>>

\* the file holds the header and one line per record of rows, in their order
FileHolds(f, rows) ==
    /\ f # NoFile
    /\ Len(f) = Len(rows) + 1
    /\ f[1] = CsvColumns
    /\ \A i \in 1..Len(rows) : f[i + 1] = FileLine(rows[i])

\* C15: the quit key, in either view mode, writes the Export Log before the
\* event loop ends: the file then holds one line per record in append order,
\* and it still does when the program is done.  The records are exactly
\* those of the successful ticks and the clears: a tick that failed or was
\* dropped adds none, a successful tick adds one with its own time stamp, a
\* clear adds one sentinel.
C15_QuitFlushesLog ==
    [][/\ last' = <<"key", "q">> =>
             /\ pc' = "closed"
             /\ csv_rows' = csv_rows
             /\ csv_rows # <<>> => FileHolds(file', csv_rows)
       /\ last' = <<"exit", "key">> =>
             /\ pc' = "done"
             /\ csv_rows' = csv_rows
             /\ csv_rows # <<>> => FileHolds(file', csv_rows)
       /\ last' \in {<<"tick", "error">>, <<"tick", "dropped">>, <<"tick", "begin">>} =>
             csv_rows' = csv_rows
       /\ last' = <<"tick", "ok">> =>
             /\ Len(csv_rows') = Len(csv_rows) + 1
             /\ csv_rows'[Len(csv_rows')].timestamp = isoformat(ts)
             /\ csv_rows'[Len(csv_rows')].material # CLEARED
       /\ last' = <<"key", "c", "clear">> =>
             /\ Len(csv_rows') = Len(csv_rows) + 1
             /\ csv_rows'[Len(csv_rows')].material = CLEARED
       /\ pc \in {"closed", "done"} => csv_rows' = csv_rows]_vars

\* quit pressed in Statistics view after samples and a clear: the file holds
\* them all
C15_Witness ==
    /\ last = <<"key", "q">>
    /\ is_stats_view
    /\ pc = "closed"
    /\ Len(csv_rows) = 3
    /\ \E i \in 1..3 : csv_rows[i].material = CLEARED
    /\ FileHolds(file, csv_rows)

-----------------------------------------------------------------------------
(* Properties of the key and scroll handlers *)

\* the key and scroll inputs other than the s, c and q keys
GatedInput ==
    /\ last'[1] \in {"key", "scroll"}
    /\ last' \notin {<<"key", "s">>, <<"key", "c", "restore">>, <<"key", "c", "clear">>,
                     <<"key", "q">>}

\* C16: in Statistics view a material key, the band key, a scroll event and
\* the navigation keys change neither the current material, the band, the
\* Transition list, the auto-scroll flag, the display width nor the viewport.
C16_InputGatedInStatistics ==
    [][is_stats_view /\ GatedInput =>
          UNCHANGED <<current_material, current_band, material_transitions,
                      auto_scroll, display_window, xlim>>]_vars

\* an input was ignored in Statistics view, entered with auto-scroll off, a
\* zoomed display width and a material set
C16_Witness ==
    /\ is_stats_view
    /\ last \in {<<"key", "ignored">>, <<"scroll", "ignored">>}
    /\ ~auto_scroll
    /\ display_window # RInt(DISPLAY_WINDOW_SEC)
    /\ material_transitions # <<>>

CKeyLabels == {<<"key", "c", "restore">>, <<"key", "c", "clear">>}

\* C17: the c key in Statistics view returns to Live view and leaves the Live
\* Series, the Transition list, the accumulators, the current material and
\* the Export Log as they are; in Live view it clears the store (one sentinel
\* record added), turns auto-scroll on with the default display width and
\* stays in Live view.
C17_CKeyByViewMode ==
    [][last' \in CKeyLabels =>
          IF is_stats_view
          THEN /\ ~is_stats_view'
               /\ last' = <<"key", "c", "restore">>
               /\ UNCHANGED <<times, rssi, noise, snr, material_transitions,
                              snr_by_material, current_material, csv_rows>>
          ELSE /\ ~is_stats_view'
               /\ last' = <<"key", "c", "clear">>
               /\ times' = <<>> /\ rssi' = <<>> /\ noise' = <<>> /\ snr' = <<>>
               /\ material_transitions' = <<>>
               /\ \A m \in DOMAIN snr_by_material' : snr_by_material'[m] = <<>>
               /\ current_material' = "baseline"
               /\ Len(csv_rows') = Len(csv_rows) + 1
               /\ SubSeq(csv_rows', 1, Len(csv_rows)) = csv_rows
               /\ csv_rows'[Len(csv_rows')].material = CLEARED
               /\ auto_scroll'
               /\ display_window' = RInt(DISPLAY_WINDOW_SEC)]_vars

\* a clear in Live view after viewport inputs and a sample
C17_Witness ==
    /\ last = <<"key", "c", "clear">>
    /\ ~is_stats_view
    /\ navCount = 2
    /\ auto_scroll /\ display_window = RInt(DISPLAY_WINDOW_SEC)
    /\ Len(csv_rows) = 2
    /\ csv_rows[1].material # CLEARED

\* the pan and zoom inputs handled in Live view
PanZoomLabels == {<<"key", "left">>, <<"key", "right">>, <<"key", "up">>, <<"key", "down">>,
                  <<"scroll", "up">>, <<"scroll", "down">>}

\* C18: a scroll zoom or an arrow key handled in Live view leaves auto-scroll
\* disabled; only the Home key, a clear or the return from Statistics view
\* enables it again; a tick taken while it is disabled leaves the viewport
\* where it is.
C18_AutoScrollStaysDisabled ==
    [][/\ last' \in PanZoomLabels => ~auto_scroll'
       /\ (~auto_scroll /\ auto_scroll') =>
             last' \in {<<"key", "home">>} \cup CKeyLabels
       /\ (~auto_scroll /\ last'[1] = "tick") =>
             /\ xlim' = xlim
             /\ ~auto_scroll']_vars

\* a sample was stored with auto-scroll disabled, and the viewport is not the
\* one auto-scroll would have set
C18_Witness ==
    /\ last = <<"tick", "ok">>
    /\ ~auto_scroll
    /\ times # <<>>
    /\ xlim # update_x_axis(times, start, TRUE, display_window, xlim)

\* C19: a material key in Live view sets the current material, appends one
\* Transition (time of the key, material) at the end of the list and leaves
\* the Live Series, the accumulators, the band and the Export Log unchanged;
\* the Transition list is always ordered by time stamp.
C19_SetConditionEffect ==
    [][/\ last' = <<"key", "material">> =>
             /\ \E m \in Materials :
                   /\ current_material' = m
                   /\ material_transitions' = Append(material_transitions, <<now', m>>)
             /\ UNCHANGED <<times, rssi, noise, snr, snr_by_material, current_band,
                            csv_rows>>
       /\ \A i \in 1..(Len(material_transitions') - 1) :
             material_transitions'[i][1] <= material_transitions'[i + 1][1]]_vars

\* a second material was set while samples are held
C19_Witness ==
    /\ last = <<"key", "material">>
    /\ Len(material_transitions) = 2
    /\ material_transitions[1][2] # material_transitions[2][2]
    /\ times # <<>>
    /\ csv_rows # <<>>

\* C20: the record a tick writes carries the material and the band current at
\* that tick, and no step changes the material or the band of a record the
\* Export Log already holds.
C20_RowsTaggedAtAppend ==
    [][/\ last' = <<"tick", "ok">> =>
             /\ Len(csv_rows') = Len(csv_rows) + 1
             /\ csv_rows'[Len(csv_rows')].material = current_material
             /\ csv_rows'[Len(csv_rows')].band = current_band
       /\ \A i \in 1..Len(csv_rows) :
             /\ i <= Len(csv_rows')
             /\ csv_rows'[i].material = csv_rows[i].material
             /\ csv_rows'[i].band = csv_rows[i].band]_vars

\* a record written under wood on the 5 GHz band, with both changed since
C20_Witness ==
    /\ \E i \in 1..Len(csv_rows) :
          csv_rows[i].material = "wood" /\ csv_rows[i].band = "5"
    /\ current_material = "glass"
    /\ current_band = "2.4"

-----------------------------------------------------------------------------
(* Properties of the accumulators, the background and the statistics *)

\* C21: in every step the accumulators hold, over all materials, as many SNR
\* values as samples were appended since the last clear; a tick adds its value
\* (signal minus noise) at the end of the accumulator of the current material
\* and changes no other; an accumulator gets shorter only by a clear, which
\* empties them all.
C21_AccumulatorsNeverEvicted ==
    [][/\ SumLen(snr_by_material', Materials) = Len(appended')
       /\ last' = <<"tick", "ok">> =>
             LET sample == appended'[Len(appended')]
             IN  snr_by_material' =
                     [snr_by_material EXCEPT ![current_material] =
                          Append(@, sample[2] - sample[3])]
       /\ (\E m \in Materials : Len(snr_by_material'[m]) < Len(snr_by_material[m])) =>
             last' = <<"key", "c", "clear">>
       /\ last' = <<"key", "c", "clear">> =>
             \A m \in Materials : snr_by_material'[m] = <<>>]_vars

\* the Live Series has evicted samples whose values two accumulators still hold
C21_Witness ==
    /\ Len(appended) = 3
    /\ Len(times) = 1
    /\ Len(snr_by_material["baseline"]) = 1
    /\ Len(snr_by_material["wood"]) = 2

\* the material in the Export Log record of the sample appended at time t
RecordedMaterial(t) ==
    LET i == CHOOSE k \in 1..Len(csv_rows) :
                 csv_rows[k].timestamp = isoformat(t) /\ csv_rows[k].material # CLEARED
    IN  csv_rows[i].material

\* the colours of the background intervals that hold elapsed time x, their
\* end points included
ColoursAt(x) ==
    {patches[k].color : k \in {j \in 1..Len(patches) :
                                  patches[j].x0 <= x /\ x <= patches[j].x1}}

\* C22: after a tick in live view every retained sample that lies in a
\* background interval lies in one of the colour of the material recorded
\* with it.
C22_BackgroundAgreesWithRecords ==
    (last = <<"tick", "ok">> /\ ~is_stats_view) =>
        \A i \in 1..Len(times) :
            ColoursAt(times[i] - start) # {} =>
                ColorOf(RecordedMaterial(times[i])) \in ColoursAt(times[i] - start)

\* the sample records of a material among rows
RowsOf(rows, material) == SelectSeq(rows, LAMBDA row : row.material = material)

\* a bar group shows the three medians of the samples in rows
MediansOver(bar, rows) ==
    /\ rows # <<>>
    /\ bar.rssi  = median([i \in 1..Len(rows) |-> rows[i].rssi_dbm])
    /\ bar.noise = median([i \in 1..Len(rows) |-> rows[i].noise_dbm])
    /\ bar.snr   = median([i \in 1..Len(rows) |-> rows[i].snr_db])

\* C23: in statistics view the three medians of every material shown are
\* those of one set of samples: the samples recorded under that material,
\* be it since the last clear or over the whole session.
C23_MediansOverSameSamples ==
    is_stats_view =>
        \A bar \in bars :
            \/ MediansOver(bar, RowsOf(SinceClear(csv_rows), bar.material))
            \/ MediansOver(bar, RowsOf(csv_rows, bar.material))

\* the viewport of auto-scroll at the default width: [max(0, latest - 60),
\* latest + 5] in elapsed time
DefaultAutoViewport ==
    LET latest == RInt(times[Len(times)] - start)
    IN  <<RMax(RInt(0), RSub(latest, RInt(DISPLAY_WINDOW_SEC))), RAdd(latest, RInt(5))>>

\* C24: whenever auto-scroll is enabled the display width is the default, so
\* the viewport a tick sets under auto-scroll is [max(0, latest - 60),
\* latest + 5].
C24_AutoScrollImpliesDefaultWidth ==
    /\ auto_scroll => display_window = RInt(DISPLAY_WINDOW_SEC)
    /\ (auto_scroll /\ last = <<"tick", "ok">>) => xlim = DefaultAutoViewport

\* the Home key was pressed on a viewport whose width a zoom had changed
C24_Witness ==
    /\ last = <<"key", "home">>
    /\ auto_scroll
    /\ times # <<>>
    /\ Width(xlim) # Width(DefaultAutoViewport)
    /\ Width(xlim) # Width(DefaultXlim)

=============================================================================
